---- MODULE Spec2Model ----
(***************************************************************************)
(* State-machine model of src/cast-manager.py (class CastManager).         *)
(*                                                                         *)
(* Time is counted in ticks of 30 seconds, the greatest common unit of     *)
(* the program's three durations: time.sleep(30), timedelta(minutes=10)    *)
(* and timedelta(hours=24).  datetime.now() reads the variable clock.      *)
(* Addresses are host numbers of the local /24 range (the i of             *)
(* f"{network_base}.{i}").  Results of external commands (ping, catt,      *)
(* nmap, docker, urlopen, file I/O) are inputs chosen with \E at each      *)
(* call.  Every method called from the loop body catches its own           *)
(* exceptions, so the behaviours of Spec contain no exception that         *)
(* escapes a call.  SpecExc adds them: any call of the loop body may raise *)
(* or be interrupted; SpecFair is SpecExc with every call and sleep        *)
(* returning.  SpecLoad, SpecScan and SpecStatus apply load_cached_ip,     *)
(* scan_for_nest_hub and check_cast_status to every input drawn for them.  *)
(***************************************************************************)
EXTENDS Integers, Sequences, FiniteSets, TLC

(* ------------------------------ bounds --------------------------------- *)
\* the loop is explored for this many iterations
MaxCycles == 3
\* the scan and the cast of one cycle (the calls with timeouts of 30 s and
\* more) take at most this many ticks together
MaxCallTicks == 1
\* an nmap report lists at most this many hosts
MaxHosts == 2
\* the behaviours with exceptions and interrupts begin at most this many
\* cycles
ExcCycles == 2

(* ------------------------ program constants ---------------------------- *)
\* self.nest_hub_ip = None
NoAddr == 0
\* self.last_cast_time = None; also a missing 'last_seen' field
NoTime == -1
\* datetime.min, far before any reading of the clock
DatetimeMin == -1000000
\* time.sleep(30)
SleepTicks == 1
\* timedelta(minutes=10)
VerificationInterval == 20
\* timedelta(hours=24)
CacheMaxAge == 2880

\* host numbers on the local /24 network that can answer at all
Addrs == {5, 9}

\* a sleep returns after 30 s, or later when the wall clock is stepped
SleepDelays == {SleepTicks, VerificationInterval}

\* the time a scan or a cast may take when the cycle began at n and it is t
CallDelays(n, t) == 0..(MaxCallTicks - (t - n))

(* --------------------------- the cache file ---------------------------- *)
\* /opt/smart-display/device_cache.json: missing ("nofile"), present but not
\* readable as a JSON object ("malformed"), or a JSON object whose
\* 'nest_hub_ip' may be missing or empty (NoAddr) and whose 'last_seen' may be
\* missing (NoTime) or not an ISO timestamp (iso_ok = FALSE)
NoFile == [kind |-> "nofile", nest_hub_ip |-> NoAddr, last_seen |-> NoTime, iso_ok |-> FALSE]
Malformed == [kind |-> "malformed", nest_hub_ip |-> NoAddr, last_seen |-> NoTime, iso_ok |-> FALSE]
Record(ip, t) == [kind |-> "record", nest_hub_ip |-> ip, last_seen |-> t, iso_ok |-> TRUE]

\* the files the process may find at startup: none, or a record that is one
\* tick short of 24 hours old when the process starts
InitCacheFiles == {NoFile, Record(9, 1 - CacheMaxAge)}

\* load_cached_ip with `<=` for `<` in the age test
LoadCachedIpInclusive(file, t) ==
    IF file.kind # "record" THEN NoAddr
    ELSE IF file.nest_hub_ip = NoAddr \/ file.last_seen = NoTime THEN NoAddr
    ELSE IF ~file.iso_ok THEN NoAddr
    ELSE IF t - file.last_seen <= CacheMaxAge THEN file.nest_hub_ip
    ELSE NoAddr

\* load_cached_ip: the address, or NoAddr for None
LoadCachedIp(file, t) ==
    IF file.kind # "record" THEN NoAddr
    ELSE IF file.nest_hub_ip = NoAddr \/ file.last_seen = NoTime THEN NoAddr
    ELSE IF ~file.iso_ok THEN NoAddr
    ELSE IF t - file.last_seen < CacheMaxAge THEN file.nest_hub_ip
    ELSE NoAddr

\* save_cached_ip: the file after the call ("ok"), after a failure before the
\* file is opened ("fail"), or after a failure once it was truncated ("torn")
SaveCachedIp(file, ip, outcome, t) ==
    IF outcome = "ok" THEN Record(ip, t)
    ELSE IF outcome = "torn" THEN Malformed
    ELSE file

(* ------------------------------ probes --------------------------------- *)
\* verify_cached_ip: ping, and only then the identity probe
VerifyCachedIp(ip, pingOk, pass) ==
    IF pingOk THEN ip \in pass ELSE FALSE

\* check_web_server_health
CheckWebServerHealth(localIpOk, http) ==
    IF ~localIpOk THEN FALSE ELSE http = "200"

\* the lines of `catt info` the status check looks for
InfoLines == {"display_name: DashCast", "status_text: Application ready", "app_id: 84912283"}

\* str.lower() on one of those lines
Lower(line) ==
    CASE line = "display_name: DashCast" -> "display_name: dashcast"
      [] line = "status_text: Application ready" -> "status_text: application ready"
      [] OTHER -> line

\* check_cast_status
CheckCastStatus(ip, rc, info, localIpOk) ==
    IF ip = NoAddr THEN FALSE
    ELSE IF rc # "ok" THEN FALSE
    ELSE IF "display_name: DashCast" \in info /\ localIpOk THEN TRUE
    ELSE \E indicator \in {"status_text: Application ready", "app_id: 84912283"} :
            indicator \in {Lower(l) : l \in info}

(* ------------------------------- scan ---------------------------------- *)
HostReports == [ip : Addrs, ports : BOOLEAN, google : BOOLEAN]

\* nmap reports: each host at most once
HostLists ==
    {h \in UNION {[1..n -> HostReports] : n \in 0..MaxHosts} :
        \A i, j \in DOMAIN h : i # j => h[i].ip # h[j].ip}

RECURSIVE parse_nmap_for_google_devices(_)
parse_nmap_for_google_devices(hosts) ==
    IF hosts = <<>> THEN <<>>
    ELSE LET h == Head(hosts)
             rest == parse_nmap_for_google_devices(Tail(hosts))
         IN IF h.ports /\ h.google THEN <<h.ip>> \o rest ELSE rest

\* the loop `for ip in google_devices: if check_chromecast_device(ip): return ip`
RECURSIVE FirstVerified(_, _)
FirstVerified(devices, pass) ==
    IF devices = <<>> THEN NoAddr
    ELSE IF Head(devices) \in pass THEN Head(devices)
    ELSE FirstVerified(Tail(devices), pass)

\* scan_for_nest_hub without the fallback to the first unverified device
ScanPrimaryStrict(google_devices, pass) ==
    FirstVerified(google_devices, pass)

\* scan_for_nest_hub after a successful nmap run
ScanPrimary(google_devices, pass) ==
    IF google_devices # <<>>
    THEN LET v == FirstVerified(google_devices, pass)
         IN IF v # NoAddr THEN v ELSE google_devices[1]
    ELSE NoAddr

\* `for i in range(1, 255)`: the hosts that answer the ping, ascending
RECURSIVE ActiveIps(_)
ActiveIps(alive) ==
    IF alive = {} THEN <<>>
    ELSE LET m == CHOOSE x \in alive : \A y \in alive : x <= y
         IN <<m>> \o ActiveIps(alive \ {m})

\* a hostname check that also probes a host whose name does not match
check_hostname_or_probe(ip, names, pass) == names[ip] = "match" \/ ip \in pass

\* check_hostname: reverse lookup, the identity probe only when it raises
check_hostname(ip, names, pass) ==
    IF names[ip] = "error" THEN ip \in pass ELSE names[ip] = "match"

RECURSIVE FirstHostname(_, _, _)
FirstHostname(active_ips, names, pass) ==
    IF active_ips = <<>> THEN NoAddr
    ELSE IF check_hostname(Head(active_ips), names, pass) THEN Head(active_ips)
    ELSE FirstHostname(Tail(active_ips), names, pass)

\* scan_for_nest_hub_alternative
scan_for_nest_hub_alternative(localIpOk, alive, names, pass) ==
    IF ~localIpOk THEN NoAddr
    ELSE FirstHostname(ActiveIps(alive), names, pass)

\* what one call of scan_for_nest_hub meets: whether the local address is
\* known (at entry, and again in the alternative scan), how nmap ends, the
\* hosts it reports, the hosts that pass the identity probe, the hosts that
\* answer a ping and the outcome of their reverse lookup
NoNames == [a \in Addrs |-> "error"]
ScanInput(localIpOk, nmap, hosts, pass, localIpOk2, alive, names) ==
    [localIpOk |-> localIpOk, nmap |-> nmap, hosts |-> hosts, pass |-> pass,
     localIpOk2 |-> localIpOk2, alive |-> alive, names |-> names]
ScanInputs ==
    {ScanInput(FALSE, "ok", <<>>, {}, FALSE, {}, NoNames),
     ScanInput(TRUE, "timeout", <<>>, {}, FALSE, {}, NoNames)}
    \cup {ScanInput(TRUE, "ok", hosts, pass, FALSE, {}, NoNames) :
            hosts \in HostLists, pass \in SUBSET Addrs}
    \cup {ScanInput(TRUE, "unavailable", <<>>, x[1], x[2], x[3], x[4]) :
            x \in (SUBSET Addrs) \X BOOLEAN \X (SUBSET Addrs)
                  \X [Addrs -> {"match", "nomatch", "error"}]}

\* scan_for_nest_hub: the address, or NoAddr for None
scan_for_nest_hub(in) ==
    IF ~in.localIpOk THEN NoAddr
    ELSE IF in.nmap = "unavailable"
         THEN scan_for_nest_hub_alternative(in.localIpOk2, in.alive, in.names, in.pass)
    ELSE IF in.nmap = "ok"
         THEN ScanPrimary(parse_nmap_for_google_devices(in.hosts), in.pass)
    ELSE NoAddr

(* --------------------------- loop decisions ---------------------------- *)
\* the periodic verification with its timer never running out
PeriodicDueNever(n, lastVerified) == FALSE

\* the periodic verification with `>=` for `>`
PeriodicDueInclusive(n, lastVerified) == n - lastVerified >= VerificationInterval

\* `now - self.last_ip_verification > timedelta(minutes=10)`
PeriodicDue(n, lastVerified) == n - lastVerified > VerificationInterval

\* the branch after the health checks without the `continue` of the fast path
AfterHealthChecksFallThrough(webOk, castOk, due) ==
    IF due THEN "reverify" ELSE "start_server"

\* where run() goes after the two health checks of a cycle with an address:
\* the healthy fast path, else the periodic verification when it is due,
\* else straight to the handling of the issues
AfterHealthChecks(webOk, castOk, due) ==
    IF webOk /\ castOk THEN "sleep"
    ELSE IF due THEN "reverify"
    ELSE "start_server"

\* need_to_cast whenever the endpoint runs
NeedToCastAlways(lastCast, castOk) == TRUE

\* need_to_cast on the status issue alone
NeedToCastStatusOnly(lastCast, castOk) == ~castOk

\* need_to_cast without the status issue
NeedToCastInitialOnly(lastCast, castOk) == lastCast = NoTime

\* need_to_cast
NeedToCast(lastCast, castOk) == lastCast = NoTime \/ ~castOk

\* start_web_server
StartWebServer(outcome) == outcome \in {"running", "started"}

\* cast_to_device: TRUE iff the cast command reported success
CastToDevice(ip, localIpOk, rc) ==
    IF ip = NoAddr THEN FALSE
    ELSE IF ~localIpOk THEN FALSE
    ELSE rc = "ok"

(* ------------------------------- state --------------------------------- *)
VARIABLES
    pc,                     \* position of run()
    running,                \* self.running
    nest_hub_ip,            \* self.nest_hub_ip
    last_cast_time,         \* self.last_cast_time
    last_ip_verification,   \* self.last_ip_verification
    cache_file,             \* contents of self.cache_file
    clock,                  \* the wall clock
    now,                    \* run(): now
    web_server_ok,          \* run(): web_server_ok
    cast_status_ok,         \* run(): cast_status_ok
    cached_ip,              \* run(): cached_ip
    discovered_ip,          \* run(): discovered_ip
    exit_code,              \* value returned by run(), -1 while running
    cycles,                 \* iterations of the loop begun so far
    cleanups,               \* calls of cleanup_containers so far
    log,                    \* history: the external calls of the current cycle
    slept,                  \* history: ticks slept at the end of the cycle
    startIp,                \* history: nest_hub_ip when the cycle began
    startVerified,          \* history: last_ip_verification when it began
    startCast,              \* history: last_cast_time when it began
    scan_input,             \* unit check of the scan: what the scan meets
    status_input            \* unit check of the display check: what it meets

vars == <<pc, running, nest_hub_ip, last_cast_time, last_ip_verification,
          cache_file, clock, now, web_server_ok, cast_status_ok, cached_ip,
          discovered_ip, exit_code, cycles, cleanups, log, slept, startIp,
          startVerified, startCast, scan_input, status_input>>

state == <<running, nest_hub_ip, last_cast_time, last_ip_verification, cache_file>>
locals == <<now, web_server_ok, cast_status_ok, cached_ip, discovered_ip>>
history == <<slept, startIp, startVerified, startCast>>

\* one entry of the history of calls
Call(op, addr, ok) == [op |-> op, addr |-> addr, ok |-> ok]

\* what one call of check_cast_status meets: the known address, how
\* `catt info` ends, which of the lines looked for its output holds, and
\* whether the local address can be determined
StatusInputs ==
    [ip : Addrs \cup {NoAddr}, rc : {"ok", "fail", "timeout", "error"},
     info : SUBSET InfoLines, localIpOk : BOOLEAN]

\* the status input of the behaviours that draw none
NoStatusInput == [ip |-> NoAddr, rc |-> "ok", info |-> {}, localIpOk |-> FALSE]

\* the scan input of the behaviours that draw none
NoScanInput == ScanInput(FALSE, "ok", <<>>, {}, FALSE, {}, NoNames)

\* CastManager.__init__, and the locals of run() before the loop
Constructed ==
    /\ running = TRUE
    /\ nest_hub_ip = NoAddr
    /\ last_cast_time = NoTime
    /\ last_ip_verification = DatetimeMin
    /\ now = 0
    /\ web_server_ok = TRUE
    /\ cast_status_ok = TRUE
    /\ cached_ip = NoAddr
    /\ discovered_ip = NoAddr
    /\ exit_code = -1
    /\ cycles = 0
    /\ cleanups = 0
    /\ log = <<>>
    /\ slept = 0
    /\ startIp = NoAddr
    /\ startVerified = DatetimeMin
    /\ startCast = NoTime

\* the process starts: `manager = CastManager(); manager.run()`
Init ==
    /\ pc = "start"
    /\ cache_file \in InitCacheFiles
    /\ clock = 0
    /\ scan_input = NoScanInput
    /\ status_input = NoStatusInput
    /\ Constructed

(* ------------------------------ actions -------------------------------- *)
\* signal_handler: SIGINT or SIGTERM arrives
signal_handler ==
    /\ pc # "done"
    /\ running
    /\ running' = FALSE
    /\ UNCHANGED <<pc, nest_hub_ip, last_cast_time, last_ip_verification,
                   cache_file, clock, exit_code, cycles, cleanups, scan_input, status_input, log>>
    /\ UNCHANGED locals
    /\ UNCHANGED history

\* a startup that returns 0 when docker is not available
StartupFailsQuietly ==
    /\ pc = "start"
    /\ \E dockerOk \in BOOLEAN :
        IF dockerOk
        THEN /\ pc' = "loop"
             /\ cleanups' = cleanups + 1
             /\ UNCHANGED exit_code
        ELSE /\ pc' = "done"
             /\ exit_code' = 0
             /\ UNCHANGED cleanups
    /\ UNCHANGED <<clock, cycles, log, scan_input, status_input>>
    /\ UNCHANGED state
    /\ UNCHANGED locals
    /\ UNCHANGED history

\* run(): ensure_docker_running, then cleanup_containers
Startup ==
    /\ pc = "start"
    /\ \E dockerOk \in BOOLEAN :
        IF dockerOk
        THEN /\ pc' = "loop"
             /\ cleanups' = cleanups + 1
             /\ UNCHANGED exit_code
        ELSE /\ pc' = "done"
             /\ exit_code' = 1
             /\ UNCHANGED cleanups
    /\ UNCHANGED <<clock, cycles, log, scan_input, status_input>>
    /\ UNCHANGED state
    /\ UNCHANGED locals
    /\ UNCHANGED history

\* the loop test that does not read the stop flag
LoopHeadIgnoresStop ==
    /\ pc = "loop"
    /\ cycles < MaxCycles
    /\ cycles' = cycles + 1
    /\ now' = clock
    /\ web_server_ok' = TRUE
    /\ cast_status_ok' = TRUE
    /\ log' = <<>>
    /\ slept' = 0
    /\ startIp' = nest_hub_ip
    /\ startVerified' = last_ip_verification
    /\ startCast' = last_cast_time
    /\ cached_ip' = NoAddr
    /\ discovered_ip' = NoAddr
    /\ pc' = IF nest_hub_ip # NoAddr THEN "health_web" ELSE "load_cache"
    /\ UNCHANGED <<clock, exit_code, cleanups, scan_input, status_input>>
    /\ UNCHANGED state

\* `while self.running:` and the first statements of the body
LoopHead ==
    /\ pc = "loop"
    /\ IF running
       THEN /\ cycles < MaxCycles
            /\ cycles' = cycles + 1
            /\ now' = clock
            /\ web_server_ok' = TRUE
            /\ cast_status_ok' = TRUE
            /\ log' = <<>>
            /\ slept' = 0
            /\ startIp' = nest_hub_ip
            /\ startVerified' = last_ip_verification
            /\ startCast' = last_cast_time
            /\ cached_ip' = NoAddr      \* dead here: assigned before each use
            /\ discovered_ip' = NoAddr  \* dead here: assigned before each use
            /\ pc' = IF nest_hub_ip # NoAddr THEN "health_web" ELSE "load_cache"
       ELSE /\ pc' = "cleanup"
            /\ UNCHANGED <<log, cycles>>
            /\ UNCHANGED locals
            /\ UNCHANGED history
    /\ UNCHANGED <<clock, exit_code, cleanups, scan_input, status_input>>
    /\ UNCHANGED state

\* web_server_ok = self.check_web_server_health()
HealthWeb ==
    /\ pc = "health_web"
    /\ \E localIpOk \in BOOLEAN, http \in {"200", "other", "error"} :
        LET ok == CheckWebServerHealth(localIpOk, http)
        IN /\ web_server_ok' = ok
           /\ log' = Append(log, Call("web_health", NoAddr, ok))
    /\ pc' = "health_cast"
    /\ UNCHANGED <<now, cast_status_ok, cached_ip, discovered_ip, clock,
                   exit_code, cycles, cleanups, scan_input, status_input>>
    /\ UNCHANGED state
    /\ UNCHANGED history

\* cast_status_ok = self.check_cast_status(), the healthy fast path, and the
\* branch on the verification timer that follows when it is not taken
HealthCast ==
    /\ pc = "health_cast"
    /\ \E rc \in {"ok", "fail", "timeout"}, info \in SUBSET InfoLines,
          localIpOk \in BOOLEAN :
        LET ok == CheckCastStatus(nest_hub_ip, rc, info, localIpOk)
        IN /\ cast_status_ok' = ok
           /\ log' = Append(log, Call("cast_status", nest_hub_ip, ok))
           /\ pc' = AfterHealthChecks(web_server_ok, ok,
                                       PeriodicDue(now, last_ip_verification))
    /\ UNCHANGED <<now, web_server_ok, cached_ip, discovered_ip, clock,
                   exit_code, cycles, cleanups, scan_input, status_input>>
    /\ UNCHANGED state
    /\ UNCHANGED history

\* cached_ip = self.load_cached_ip()
LoadCache ==
    /\ pc = "load_cache"
    /\ LET ip == LoadCachedIp(cache_file, clock)
        IN /\ cached_ip' = ip
           /\ log' = Append(log, Call("load", ip, ip # NoAddr))
           /\ pc' = IF ip # NoAddr THEN "verify_cached" ELSE "scan"
    /\ UNCHANGED <<now, web_server_ok, cast_status_ok, discovered_ip, clock,
                   exit_code, cycles, cleanups, scan_input, status_input>>
    /\ UNCHANGED state
    /\ UNCHANGED history

\* the adoption of the cached address followed by a save of it
VerifyCachedAndSave ==
    /\ pc = "verify_cached"
    /\ \E pingOk \in BOOLEAN, pass \in SUBSET Addrs :
        LET ok == VerifyCachedIp(cached_ip, pingOk, pass)
        IN /\ log' = IF ok
                     THEN log \o <<Call("verify", cached_ip, ok),
                                   Call("save", cached_ip, TRUE)>>
                     ELSE Append(log, Call("verify", cached_ip, ok))
           /\ IF ok
              THEN /\ nest_hub_ip' = cached_ip
                   /\ last_ip_verification' = now
                   /\ pc' = "start_server"
              ELSE /\ UNCHANGED <<nest_hub_ip, last_ip_verification>>
                   /\ pc' = "scan"
    /\ cache_file' = IF pc' = "start_server" THEN Record(cached_ip, clock) ELSE cache_file
    /\ UNCHANGED <<running, last_cast_time, clock, exit_code, cycles, cleanups, scan_input, status_input>>
    /\ UNCHANGED locals
    /\ UNCHANGED history

\* the adoption of the cached address without the verification time
VerifyCachedNoStamp ==
    /\ pc = "verify_cached"
    /\ \E pingOk \in BOOLEAN, pass \in SUBSET Addrs :
        LET ok == VerifyCachedIp(cached_ip, pingOk, pass)
        IN /\ log' = Append(log, Call("verify", cached_ip, ok))
           /\ IF ok
              THEN /\ nest_hub_ip' = cached_ip
                   /\ UNCHANGED last_ip_verification
                   /\ pc' = "start_server"
              ELSE /\ UNCHANGED <<nest_hub_ip, last_ip_verification>>
                   /\ pc' = "scan"
    /\ UNCHANGED <<running, last_cast_time, cache_file, clock, exit_code, cycles, cleanups, scan_input, status_input>>
    /\ UNCHANGED locals
    /\ UNCHANGED history

\* if self.verify_cached_ip(cached_ip): adopt it
VerifyCached ==
    /\ pc = "verify_cached"
    /\ \E pingOk \in BOOLEAN, pass \in SUBSET Addrs :
        LET ok == VerifyCachedIp(cached_ip, pingOk, pass)
        IN /\ log' = Append(log, Call("verify", cached_ip, ok))
           /\ IF ok
              THEN /\ nest_hub_ip' = cached_ip
                   /\ last_ip_verification' = now
                   /\ pc' = "start_server"
              ELSE /\ UNCHANGED <<nest_hub_ip, last_ip_verification>>
                   /\ pc' = "scan"
    /\ UNCHANGED <<running, last_cast_time, cache_file, clock, exit_code, cycles, cleanups, scan_input, status_input>>
    /\ UNCHANGED locals
    /\ UNCHANGED history

\* a scan that found nothing and goes to the next cycle without sleeping
ScanRetriesAtOnce ==
    /\ pc = "scan"
    /\ \E in \in ScanInputs :
        LET ip == scan_for_nest_hub(in)
        IN /\ discovered_ip' = ip
           /\ log' = Append(log, Call("scan", ip, ip # NoAddr))
           /\ IF ip # NoAddr
              THEN /\ nest_hub_ip' = ip
                   /\ pc' = "save_cache"
              ELSE /\ UNCHANGED nest_hub_ip
                   /\ pc' = "loop"
    /\ \E d \in CallDelays(now, clock) : clock' = clock + d
    /\ UNCHANGED <<running, last_cast_time, last_ip_verification, cache_file,
                   now, web_server_ok, cast_status_ok, cached_ip,
                   exit_code, cycles, cleanups, scan_input, status_input>>
    /\ UNCHANGED history

\* discovered_ip = self.scan_for_nest_hub()
Scan ==
    /\ pc = "scan"
    /\ \E in \in ScanInputs :
        LET ip == scan_for_nest_hub(in)
        IN /\ discovered_ip' = ip
           /\ log' = Append(log, Call("scan", ip, ip # NoAddr))
           /\ IF ip # NoAddr
              THEN /\ nest_hub_ip' = ip
                   /\ pc' = "save_cache"
              ELSE /\ UNCHANGED nest_hub_ip
                   /\ pc' = "sleep"
    /\ \E d \in CallDelays(now, clock) : clock' = clock + d
    /\ UNCHANGED <<running, last_cast_time, last_ip_verification, cache_file,
                   now, web_server_ok, cast_status_ok, cached_ip,
                   exit_code, cycles, cleanups, scan_input, status_input>>
    /\ UNCHANGED history

\* self.save_cached_ip(discovered_ip); self.last_ip_verification = now
SaveCache ==
    /\ pc = "save_cache"
    /\ \E outcome \in {"ok", "fail", "torn"} :
        /\ cache_file' = SaveCachedIp(cache_file, discovered_ip, outcome, clock)
        /\ log' = Append(log, Call("save", discovered_ip, outcome = "ok"))
    /\ last_ip_verification' = now
    /\ pc' = "start_server"
    /\ UNCHANGED <<running, nest_hub_ip, last_cast_time, clock, exit_code, cycles, cleanups, scan_input, status_input>>
    /\ UNCHANGED locals
    /\ UNCHANGED history

\* the periodic verification that goes on with an address that failed it
ReverifyKeepsAddress ==
    /\ pc = "reverify"
    /\ \E pingOk \in BOOLEAN, pass \in SUBSET Addrs :
        LET ok == VerifyCachedIp(nest_hub_ip, pingOk, pass)
        IN /\ log' = Append(log, Call("reverify", nest_hub_ip, ok))
           /\ IF ok
              THEN /\ last_ip_verification' = now
                   /\ UNCHANGED nest_hub_ip
                   /\ pc' = "start_server"
              ELSE /\ UNCHANGED <<nest_hub_ip, last_ip_verification>>
                   /\ pc' = "start_server"
    /\ UNCHANGED <<running, last_cast_time, cache_file, clock, exit_code, cycles, cleanups, scan_input, status_input>>
    /\ UNCHANGED locals
    /\ UNCHANGED history

\* the periodic verification with its test inverted
ReverifyInverted ==
    /\ pc = "reverify"
    /\ \E pingOk \in BOOLEAN, pass \in SUBSET Addrs :
        LET ok == VerifyCachedIp(nest_hub_ip, pingOk, pass)
        IN /\ log' = Append(log, Call("reverify", nest_hub_ip, ok))
           /\ IF ~ok
              THEN /\ last_ip_verification' = now
                   /\ UNCHANGED nest_hub_ip
                   /\ pc' = "start_server"
              ELSE /\ nest_hub_ip' = NoAddr
                   /\ UNCHANGED last_ip_verification
                   /\ pc' = "loop"
    /\ UNCHANGED <<running, last_cast_time, cache_file, clock, exit_code, cycles, cleanups, scan_input, status_input>>
    /\ UNCHANGED locals
    /\ UNCHANGED history

\* the periodic verification of the known address
Reverify ==
    /\ pc = "reverify"
    /\ \E pingOk \in BOOLEAN, pass \in SUBSET Addrs :
        LET ok == VerifyCachedIp(nest_hub_ip, pingOk, pass)
        IN /\ log' = Append(log, Call("reverify", nest_hub_ip, ok))
           /\ IF ok
              THEN /\ last_ip_verification' = now
                   /\ UNCHANGED nest_hub_ip
                   /\ pc' = "start_server"
              ELSE /\ nest_hub_ip' = NoAddr
                   /\ UNCHANGED last_ip_verification
                   /\ pc' = "loop"
    /\ UNCHANGED <<running, last_cast_time, cache_file, clock, exit_code, cycles, cleanups, scan_input, status_input>>
    /\ UNCHANGED locals
    /\ UNCHANGED history

\* an endpoint start whose failure sends the cycle back to the scan
StartServerRescans ==
    /\ pc = "start_server"
    /\ \E outcome \in {"running", "no_local_ip", "started", "failed"} :
        LET ok == StartWebServer(outcome)
        IN /\ log' = Append(log, Call("start", NoAddr, ok))
           /\ pc' = IF ~ok THEN (IF Len(log) <= 3 THEN "scan" ELSE "sleep")
                    ELSE IF NeedToCast(last_cast_time, cast_status_ok) THEN "cast"
                    ELSE "sleep"
    /\ UNCHANGED <<clock, exit_code, cycles, cleanups, scan_input, status_input>>
    /\ UNCHANGED state
    /\ UNCHANGED locals
    /\ UNCHANGED history

\* if not self.start_web_server(): sleep and continue; else decide on the cast
StartServer ==
    /\ pc = "start_server"
    /\ \E outcome \in {"running", "no_local_ip", "started", "failed"} :
        LET ok == StartWebServer(outcome)
        IN /\ log' = Append(log, Call("start", NoAddr, ok))
           /\ pc' = IF ~ok THEN "sleep"
                    ELSE IF NeedToCast(last_cast_time, cast_status_ok) THEN "cast"
                    ELSE "sleep"
    /\ UNCHANGED <<clock, exit_code, cycles, cleanups, scan_input, status_input>>
    /\ UNCHANGED state
    /\ UNCHANGED locals
    /\ UNCHANGED history

\* the cast recording the time the cycle began
CastStampsCycleStart ==
    /\ pc = "cast"
    /\ \E localIpOk \in BOOLEAN, rc \in {"ok", "fail", "timeout"},
          d \in CallDelays(now, clock) :
        LET ok == CastToDevice(nest_hub_ip, localIpOk, rc)
        IN /\ log' = Append(log, Call("cast", nest_hub_ip, ok))
           /\ clock' = clock + d
           /\ last_cast_time' = IF ok THEN now ELSE last_cast_time
           /\ cast_status_ok' = IF ok THEN TRUE ELSE cast_status_ok
    /\ pc' = "sleep"
    /\ UNCHANGED <<running, nest_hub_ip, last_ip_verification, cache_file,
                   now, web_server_ok, cached_ip, discovered_ip,
                   exit_code, cycles, cleanups, scan_input, status_input>>
    /\ UNCHANGED history

\* success = self.cast_to_device()
Cast ==
    /\ pc = "cast"
    /\ \E localIpOk \in BOOLEAN, rc \in {"ok", "fail", "timeout"},
          d \in CallDelays(now, clock) :
        LET ok == CastToDevice(nest_hub_ip, localIpOk, rc)
        IN /\ log' = Append(log, Call("cast", nest_hub_ip, ok))
           /\ clock' = clock + d
           /\ last_cast_time' = IF ok THEN clock' ELSE last_cast_time
           /\ cast_status_ok' = IF ok THEN TRUE ELSE cast_status_ok
    /\ pc' = "sleep"
    /\ UNCHANGED <<running, nest_hub_ip, last_ip_verification, cache_file,
                   now, web_server_ok, cached_ip, discovered_ip,
                   exit_code, cycles, cleanups, scan_input, status_input>>
    /\ UNCHANGED history

\* a sleep that may return at once
SleepMayReturnAtOnce ==
    /\ pc = "sleep"
    /\ \E d \in SleepDelays \cup {0} :
        /\ clock' = clock + d
        /\ slept' = d
    /\ pc' = "loop"
    /\ UNCHANGED <<exit_code, cycles, cleanups, scan_input, status_input, log, startIp, startVerified, startCast>>
    /\ UNCHANGED state
    /\ UNCHANGED locals

\* time.sleep(30)
Sleep ==
    /\ pc = "sleep"
    /\ \E d \in SleepDelays :
        /\ clock' = clock + d
        /\ slept' = d
    /\ pc' = "loop"
    /\ UNCHANGED <<exit_code, cycles, cleanups, scan_input, status_input, log, startIp, startVerified, startCast>>
    /\ UNCHANGED state
    /\ UNCHANGED locals

\* the return after the loop without the cleanup
ShutdownNoCleanup ==
    /\ pc = "cleanup"
    /\ exit_code' = 0
    /\ pc' = "done"
    /\ UNCHANGED <<clock, cycles, cleanups, log, scan_input, status_input>>
    /\ UNCHANGED state
    /\ UNCHANGED locals
    /\ UNCHANGED history

\* after the loop: cleanup_containers(); return 0
Shutdown ==
    /\ pc = "cleanup"
    /\ cleanups' = cleanups + 1
    /\ exit_code' = 0
    /\ pc' = "done"
    /\ UNCHANGED <<clock, cycles, log, scan_input, status_input>>
    /\ UNCHANGED state
    /\ UNCHANGED locals
    /\ UNCHANGED history

Next ==
    \/ signal_handler
    \/ Startup
    \/ LoopHead
    \/ HealthWeb
    \/ HealthCast
    \/ LoadCache
    \/ VerifyCached
    \/ Scan
    \/ SaveCache
    \/ Reverify
    \/ StartServer
    \/ Cast
    \/ Sleep
    \/ Shutdown

Spec == Init /\ [][Next]_vars

(* ------ the loop with unexpected exceptions and interrupts ------------- *)
\* the positions of run() at which the next thing it does is an external call
CallPositions == {"health_web", "health_cast", "load_cache", "verify_cached",
                  "scan", "save_cache", "reverify", "start_server", "cast"}

\* the handler of an unexpected exception without its sleep
RaiseNoWait ==
    /\ pc \in CallPositions
    /\ log' = Append(log, Call("raise", NoAddr, FALSE))
    /\ pc' = "loop"
    /\ UNCHANGED <<clock, exit_code, cycles, cleanups, scan_input, status_input>>
    /\ UNCHANGED state
    /\ UNCHANGED locals
    /\ UNCHANGED history

\* an exception handler that forgets the known address
RaiseDropsAddress ==
    /\ pc \in CallPositions
    /\ log' = Append(log, Call("raise", NoAddr, FALSE))
    /\ pc' = "except_sleep"
    /\ nest_hub_ip' = NoAddr
    /\ UNCHANGED <<running, last_cast_time, last_ip_verification, cache_file>>
    /\ UNCHANGED <<clock, exit_code, cycles, cleanups, scan_input, status_input>>
    /\ UNCHANGED locals
    /\ UNCHANGED history

\* the step run() is at raises an exception that is not a KeyboardInterrupt:
\* `except Exception as e:` logs it, the rest of the body is skipped
Raise ==
    /\ pc \in CallPositions
    /\ log' = Append(log, Call("raise", NoAddr, FALSE))
    /\ pc' = "except_sleep"
    /\ UNCHANGED <<clock, exit_code, cycles, cleanups, scan_input, status_input>>
    /\ UNCHANGED state
    /\ UNCHANGED locals
    /\ UNCHANGED history

\* the `time.sleep(30)` of the exception handler
ExceptSleep ==
    /\ pc = "except_sleep"
    /\ \E d \in SleepDelays :
        /\ clock' = clock + d
        /\ slept' = d
    /\ pc' = "loop"
    /\ UNCHANGED <<exit_code, cycles, cleanups, scan_input, status_input, log, startIp, startVerified, startCast>>
    /\ UNCHANGED state
    /\ UNCHANGED locals

\* a KeyboardInterrupt reaches the loop body: `except KeyboardInterrupt: break`
KeyboardInterrupted ==
    /\ pc \in CallPositions \cup {"sleep"}
    /\ log' = Append(log, Call("interrupt", NoAddr, FALSE))
    /\ pc' = "cleanup"
    /\ UNCHANGED <<clock, exit_code, cycles, cleanups, scan_input, status_input>>
    /\ UNCHANGED state
    /\ UNCHANGED locals
    /\ UNCHANGED history

\* the loop test of the behaviours capped at ExcCycles cycles
LoopHeadExc == LoopHead /\ cycles' <= ExcCycles

NextExc ==
    \/ signal_handler
    \/ Startup
    \/ LoopHeadExc
    \/ HealthWeb
    \/ HealthCast
    \/ LoadCache
    \/ VerifyCached
    \/ Scan
    \/ SaveCache
    \/ Reverify
    \/ StartServer
    \/ Cast
    \/ Sleep
    \/ Shutdown
    \/ Raise
    \/ ExceptSleep
    \/ KeyboardInterrupted

\* the process starts with a cache file one tick short of 24 hours old
InitExc == Init /\ cache_file = Record(9, 1 - CacheMaxAge)

SpecExc == InitExc /\ [][NextExc]_vars

\* the steps run() takes by itself: everything but the arrival of a signal,
\* of an exception or of an interrupt
Run ==
    \/ Startup
    \/ LoopHeadExc
    \/ HealthWeb
    \/ HealthCast
    \/ LoadCache
    \/ VerifyCached
    \/ Scan
    \/ SaveCache
    \/ Reverify
    \/ StartServer
    \/ Cast
    \/ Sleep
    \/ ExceptSleep
    \/ Shutdown

\* every external call and every sleep returns, and run() then goes on
SpecFair == SpecExc /\ WF_vars(Run)

(* ------------- unit specification of load_cached_ip -------------------- *)
\* the cache files load_cached_ip is applied to: every shape of file, with
\* timestamps on both sides of the 24 h horizon, and one in the future
UnitLastSeen == {0 - CacheMaxAge - 1, 0 - CacheMaxAge, 1 - CacheMaxAge, 2 - CacheMaxAge, 0, 2}
UnitCacheFiles ==
    {NoFile, Malformed}
    \cup [kind : {"record"}, nest_hub_ip : Addrs \cup {NoAddr},
          last_seen : UnitLastSeen \cup {NoTime}, iso_ok : BOOLEAN]

\* a manager without a known address about to load the cache
InitLoad ==
    /\ pc = "load_cache"
    /\ cache_file \in UnitCacheFiles
    /\ clock \in 0..2
    /\ scan_input = NoScanInput
    /\ status_input = NoStatusInput
    /\ Constructed

SpecLoad == InitLoad /\ [][LoadCache]_vars

(* ------------- unit specification of scan_for_nest_hub ----------------- *)
\* a manager about to scan a network drawn from ScanInputs
InitScan ==
    /\ pc = "scan_unit"
    /\ cache_file = NoFile
    /\ clock = 0
    /\ scan_input \in ScanInputs
    /\ status_input = NoStatusInput
    /\ Constructed

\* discovered_ip = self.scan_for_nest_hub() on the drawn network
ScanUnit ==
    /\ pc = "scan_unit"
    /\ discovered_ip' = scan_for_nest_hub(scan_input)
    /\ pc' = "scan_done"
    /\ UNCHANGED <<now, web_server_ok, cast_status_ok, cached_ip, clock,
                   exit_code, cycles, cleanups, scan_input, status_input, log>>
    /\ UNCHANGED state
    /\ UNCHANGED history

SpecScan == InitScan /\ [][ScanUnit]_vars

(* ------------- unit specification of check_cast_status ----------------- *)
\* a manager about to check the display in a situation drawn from StatusInputs
InitStatus ==
    /\ pc = "status_unit"
    /\ cache_file = NoFile
    /\ clock = 0
    /\ scan_input = NoScanInput
    /\ status_input \in StatusInputs
    /\ Constructed

\* cast_status_ok = self.check_cast_status() in the drawn situation
StatusUnit ==
    /\ pc = "status_unit"
    /\ cast_status_ok' = CheckCastStatus(status_input.ip, status_input.rc,
                                          status_input.info, status_input.localIpOk)
    /\ pc' = "status_done"
    /\ UNCHANGED <<now, web_server_ok, cached_ip, discovered_ip, clock,
                   exit_code, cycles, cleanups, scan_input, status_input, log>>
    /\ UNCHANGED state
    /\ UNCHANGED history

SpecStatus == InitStatus /\ [][StatusUnit]_vars

(* ------------------------ reading the history ------------------------- *)
\* the positions of the calls of one kind in the current cycle
Ops(op) == {i \in DOMAIN log : log[i].op = op}
Count(op) == Cardinality(Ops(op))

\* every call of the cycle has been made: it is sleeping or over
CallsDone == pc \in {"sleep", "loop", "cleanup", "done"} /\ log # <<>>

\* the cycle began with a known address and has made both health checks
HealthChecked ==
    /\ Len(log) >= 2
    /\ log[1].op = "web_health"
    /\ log[2].op = "cast_status"

HealthyCycle == HealthChecked /\ log[1].ok /\ log[2].ok
DegradedCycle == HealthChecked /\ (~log[1].ok \/ ~log[2].ok)
DisplayFalse == HealthChecked /\ ~log[2].ok
ReverifiedOk == \E i \in Ops("reverify") : log[i].ok
StartedOk == \E i \in Ops("start") : log[i].ok

(* ------------------------------- C1 ----------------------------------- *)
\* C1 as claimed: every cast attempt of a cycle goes to an address that passed
\* verification earlier in that same cycle.  The statement is read in the
\* claim's favour: an address returned by this cycle's scan counts as verified.
C1_CastOnlyAfterVerificationThisCycle ==
    \A i \in Ops("cast") :
        \E j \in 1..(i - 1) :
            /\ log[j].op \in {"verify", "reverify", "scan"}
            /\ log[j].ok
            /\ log[j].addr = log[i].addr

\* C1 as amended: every cast attempt goes to the current known address, never
\* follows a failed re-verification, and is made only when that address was
\* resolved or re-verified earlier in the same cycle or was the known address
\* at the start of the cycle with lastVerifiedAt at most 10 minutes before the
\* cycle's time.
C1_CastOnlyToRecentlyVerified ==
    \A i \in Ops("cast") :
        /\ log[i].addr # NoAddr
        /\ log[i].addr = nest_hub_ip
        /\ now - last_ip_verification <= VerificationInterval
        /\ \A j \in Ops("reverify") : log[j].ok
        /\ \/ \E j \in 1..(i - 1) :
                /\ log[j].op \in {"verify", "reverify", "scan"}
                /\ log[j].ok
                /\ log[j].addr = log[i].addr
           \/ /\ startIp = log[i].addr
              /\ now - startVerified <= VerificationInterval

\* a cast that follows a successful re-verification in its cycle
C1_Witness ==
    \E i \in Ops("cast") : \E j \in 1..(i - 1) : log[j].op = "reverify" /\ log[j].ok

(* ------------------------------- C2 ----------------------------------- *)
\* C2: a cycle that begins with a known address and whose two health checks
\* are both true makes no other call, leaves knownAddress, lastVerifiedAt and
\* lastCastAt as they were, and sleeps the full interval.
C2_HealthyCycleIdle ==
    HealthyCycle =>
        /\ Len(log) = 2
        /\ pc \in {"sleep", "loop", "cleanup", "done"}
        /\ startIp # NoAddr
        /\ nest_hub_ip = startIp
        /\ last_ip_verification = startVerified
        /\ last_cast_time = startCast
        /\ pc # "sleep" => slept >= SleepTicks

\* a healthy cycle that has slept
C2_Witness == HealthyCycle /\ pc = "loop" /\ slept >= SleepTicks

(* ------------------------------- C3 ----------------------------------- *)
\* the cycle is past the point where it decides on the re-verification
PastVerification == HealthChecked /\ pc # "reverify"

\* C3 as claimed: a cycle that begins with a known address re-verifies it
\* whenever a health signal is false or more than 10 minutes have passed
\* since lastVerifiedAt.
C3_ReverifiesWhenDegradedOrDue ==
    PastVerification =>
        (~log[1].ok \/ ~log[2].ok \/ now - startVerified > VerificationInterval
            => Count("reverify") = 1)

\* C3 as amended: a cycle that begins with a known address re-verifies it if
\* and only if a health signal is false and more than 10 minutes have passed
\* since lastVerifiedAt; a healthy cycle never re-verifies, and a degraded
\* cycle within 10 minutes of lastVerifiedAt does not either.
C3_ReverifiesIffDegradedAndDue ==
    PastVerification =>
        /\ Count("reverify") <= 1
        /\ Count("reverify") = 1 <=>
              /\ ~log[1].ok \/ ~log[2].ok
              /\ now - startVerified > VerificationInterval

\* a degraded cycle one tick past the interval that re-verified
C3_Witness ==
    /\ PastVerification
    /\ DegradedCycle
    /\ now - startVerified = VerificationInterval + 1
    /\ Count("reverify") = 1

(* ------------------------------- C4 ----------------------------------- *)
\* C4: when the re-verification of the known address fails, the cycle ends
\* there: knownAddress is absent, and the cycle has neither started the
\* endpoint nor cast.
C4_FailedReverifyEndsCycle ==
    \A i \in Ops("reverify") :
        ~log[i].ok =>
            /\ i = Len(log)
            /\ pc \in {"loop", "cleanup", "done"}
            /\ startIp # NoAddr
            /\ nest_hub_ip = NoAddr
            /\ Count("start") = 0
            /\ Count("cast") = 0

\* a cycle ended by a failed re-verification
C4_Witness == pc = "loop" /\ \E i \in Ops("reverify") : ~log[i].ok

(* ------------------------------- C5 ----------------------------------- *)
\* C5 as claimed: a cycle whose display check was false and whose known
\* address re-verified makes exactly one cast attempt.
C5_ExactlyOneCastAfterReverify ==
    CallsDone /\ DisplayFalse /\ ReverifiedOk => Count("cast") = 1

\* C5 as amended: a cycle whose display check was false and whose known
\* address re-verified tries the endpoint start once and makes exactly one
\* cast attempt (one call of cast_to_device) if the endpoint start succeeded,
\* none if it failed.
C5_OneCastIffEndpointStarted ==
    CallsDone /\ DisplayFalse /\ ReverifiedOk =>
        /\ Count("start") = 1
        /\ Count("cast") = IF StartedOk THEN 1 ELSE 0

\* such a cycle with its one cast made
C5_Witness == CallsDone /\ DisplayFalse /\ ReverifiedOk /\ Count("cast") = 1

(* ------------------------------- C6 ----------------------------------- *)
\* the step is a call of cast_to_device
CastStep == Len(log') = Len(log) + 1 /\ log'[Len(log')].op = "cast"

\* C6: lastCastAt changes only in a cast that reported success, a successful
\* cast sets it to the time at which the cast returned, and a cast that did
\* not succeed leaves it as it was.
C6_LastCastOnlyOnSuccess ==
    [][/\ last_cast_time' # last_cast_time => CastStep /\ log'[Len(log')].ok
       /\ CastStep =>
            last_cast_time' = IF log'[Len(log')].ok THEN clock' ELSE last_cast_time
      ]_vars

\* a successful cast recorded at the current time, later than the cycle's now
C6_Witness ==
    /\ pc = "sleep"
    /\ log # <<>>
    /\ log[Len(log)].op = "cast"
    /\ log[Len(log)].ok
    /\ last_cast_time = clock
    /\ clock > now
    /\ startCast # NoTime

(* ------------------------------- C7 ----------------------------------- *)
\* C7: the cache is saved exactly once in a cycle that took its address from
\* a scan, right after the scan and with the scanned address, and never in a
\* cycle that re-verified the known address, adopted the cached address or
\* resolved nothing.
C7_SaveOncePerScanResolution ==
    /\ Count("save") =
          IF (\E i \in Ops("scan") : log[i].ok) /\ pc # "save_cache" THEN 1 ELSE 0
    /\ \A i \in Ops("save") :
          /\ i > 1
          /\ log[i - 1].op = "scan"
          /\ log[i - 1].addr = log[i].addr

\* a cycle that scanned after the cached address failed, and saved once
C7_Witness ==
    /\ CallsDone
    /\ Count("save") = 1
    /\ \E i \in Ops("verify") : ~log[i].ok

(* ------------------------------- C8 ----------------------------------- *)
\* the file is a record with a non-empty address and a parseable timestamp
WellFormed(file) ==
    /\ file.kind = "record"
    /\ file.nest_hub_ip # NoAddr
    /\ file.last_seen # NoTime
    /\ file.iso_ok

\* C8: load returns the stored address if and only if the file is a
\* well-formed record less than 24 hours old; at exactly 24 hours or more,
\* and for a missing, incomplete or unparseable file, it returns absent; it
\* never changes the file.
C8_LoadContract ==
    [][pc = "load_cache" /\ pc' # "load_cache" =>
        /\ cache_file' = cache_file
        /\ IF WellFormed(cache_file) /\ clock - cache_file.last_seen < CacheMaxAge
           THEN cached_ip' = cache_file.nest_hub_ip /\ cached_ip' # NoAddr
           ELSE cached_ip' = NoAddr
        /\ (cache_file.kind = "record" /\ cache_file.last_seen # NoTime
            /\ clock - cache_file.last_seen >= CacheMaxAge) => cached_ip' = NoAddr
      ]_vars

\* a record one tick short of 24 hours old has been loaded
C8_Witness ==
    /\ pc = "verify_cached"
    /\ cached_ip = cache_file.nest_hub_ip
    /\ clock - cache_file.last_seen = CacheMaxAge - 1

(* ------------------------------- C9 ----------------------------------- *)
\* C9: in a cycle where the known address passes the re-verification, the
\* scan is not invoked, the cache is neither loaded nor saved, and the known
\* address stays the one the cycle began with.
C9_VerifiedAddressKept ==
    \A i \in Ops("reverify") :
        log[i].ok =>
            /\ Count("scan") = 0
            /\ Count("load") = 0
            /\ Count("save") = 0
            /\ log[i].addr = startIp
            /\ nest_hub_ip = startIp
            /\ nest_hub_ip # NoAddr

\* a finished cycle whose re-verification passed
C9_Witness == CallsDone /\ ReverifiedOk /\ nest_hub_ip = startIp

(* ------------------------------- C10 ---------------------------------- *)
\* the candidates of the scan that was drawn
Candidates == parse_nmap_for_google_devices(scan_input.hosts)

\* C10: when the primary scan returns a candidate list, the resolution is the
\* first candidate in list order that passes the identity probe; the first
\* candidate of the list if none passes; absent if the list is empty.
C10_FirstVerifiedElseFirst ==
    (pc = "scan_done" /\ scan_input.localIpOk /\ scan_input.nmap = "ok") =>
        \/ /\ Candidates = <<>>
           /\ discovered_ip = NoAddr
        \/ /\ Candidates # <<>>
           /\ \A i \in DOMAIN Candidates : Candidates[i] \notin scan_input.pass
           /\ discovered_ip = Candidates[1]
        \/ \E i \in DOMAIN Candidates :
              /\ Candidates[i] \in scan_input.pass
              /\ \A j \in 1..(i - 1) : Candidates[j] \notin scan_input.pass
              /\ discovered_ip = Candidates[i]

\* two candidates of which only the second passes: the second is returned
C10_Witness ==
    /\ pc = "scan_done"
    /\ scan_input.nmap = "ok"
    /\ Len(Candidates) = 2
    /\ scan_input.pass = {Candidates[2]}
    /\ discovered_ip = Candidates[2]

(* ------------------------------- C11 ---------------------------------- *)
\* C11 as claimed: once the stop flag is set, no further external action is
\* started: a call that returns with the flag set was the one in flight, and
\* after it run() is at no other call (it may sleep, then the loop exits).
C11_NoCallStartedAfterStop ==
    [][(~running /\ Len(log') > Len(log)) => pc' \notin CallPositions]_vars

\* C11 as amended: once the stop flag is set it stays set and no new cycle
\* begins; the cycle in progress runs on to its end, making whatever calls
\* and sleep its branch still holds, and the loop exits at its next test of
\* the flag, at the top of the loop.
C11_NoCycleBeginsAfterStop ==
    [][~running =>
        /\ ~running'
        /\ cycles' = cycles
        /\ pc = "loop" => pc' = "cleanup"
        /\ pc' = "cleanup" => pc \in {"loop", "cleanup"}
      ]_vars

\* the flag was set during a cycle that has gone on to the cast
C11_Witness == ~running /\ pc = "cast" /\ Count("start") = 1

(* ------------------------------- C12 ---------------------------------- *)
\* the stop flag is set and run() is in the loop or about to test it
StopRequested == ~running /\ pc \notin {"start", "done"}

\* run() has returned 0 after the cleanup at startup and the one at shutdown
CleanExit == pc = "done" /\ exit_code = 0 /\ cleanups = 2

\* C12: when every call and sleep returns, a shutdown request at any point of
\* any cycle, a sleep, the retry without sleep and the exception handler
\* included, leads to the loop exiting; the cleanup then runs exactly once
\* and run() returns 0.
C12_StopLeadsToCleanExit ==
    /\ StopRequested ~> CleanExit
    /\ [](pc = "cleanup" => cleanups = 1)
    /\ [](pc = "done" /\ exit_code = 0 => cleanups = 2)

\* a clean exit straight from the retry that follows a failed re-verification
C12_Witness ==
    /\ CleanExit
    /\ ~running
    /\ slept = 0
    /\ log # <<>>
    /\ log[Len(log)].op = "reverify"

(* ------------------------------- C13 ---------------------------------- *)
\* an iteration of the loop has just ended and the loop test is next
CycleEnded == pc = "loop" /\ cycles >= 1

\* the iteration ended in the `continue` of the failed re-verification
DroppedAddress == log # <<>> /\ log[Len(log)].op = "reverify" /\ ~log[Len(log)].ok

\* C13 as claimed: every branch through a cycle ends in a bounded sleep
\* before the next cycle begins.
C13_EveryCycleSleeps == CycleEnded => slept \in SleepDelays

\* C13 as amended: every branch through a cycle ends in a bounded sleep of
\* at least 30 s, except the branch of the failed re-verification, which
\* drops the known address and goes to the next cycle without sleeping; that
\* branch is open only to a cycle that began with a known address, and it
\* leaves none.
C13_SleepsUnlessAddressDropped ==
    CycleEnded =>
        IF DroppedAddress
        THEN slept = 0 /\ startIp # NoAddr /\ nest_hub_ip = NoAddr
        ELSE slept \in SleepDelays /\ slept >= SleepTicks

\* a second or later iteration that ended without sleeping
C13_Witness == CycleEnded /\ cycles >= 2 /\ slept = 0 /\ DroppedAddress

(* ------------------------------- C14 ---------------------------------- *)
\* the calls that resolve or verify the address, and where run() makes them
ResolutionOps == {"load", "verify", "reverify", "scan"}
ResolutionPositions == {"load_cache", "verify_cached", "scan", "reverify"}

\* the calls that act on the resolved address
ActionOps == {"start", "cast"}

\* C14: within a cycle every endpoint start and every cast comes after all
\* the cache loads, probes and scans of that cycle: none of these is made or
\* about to be made once the endpoint start or the cast has been called, and
\* the cast comes after the endpoint start.
C14_ActionsAfterResolution ==
    \A i \in DOMAIN log :
        log[i].op \in ActionOps =>
            /\ \A j \in (i + 1)..Len(log) : log[j].op \notin ResolutionOps
            /\ pc \notin ResolutionPositions
            /\ log[i].op = "cast" =>
                  /\ i > 1
                  /\ log[i - 1].op = "start"
                  /\ i = Len(log)

\* a cycle that loaded, probed, scanned, saved, started and cast, in this order
C14_Witness ==
    /\ Len(log) = 6
    /\ log[1].op = "load"
    /\ log[2].op = "verify"
    /\ log[3].op = "scan"
    /\ log[5].op = "start"
    /\ log[6].op = "cast"

(* ------------------------------- C15 ---------------------------------- *)
\* the cycle was cut short by an unexpected exception, or by an interrupt
Raised == log # <<>> /\ log[Len(log)].op = "raise"
Interrupted == log # <<>> /\ log[Len(log)].op = "interrupt"

\* the exception is the last thing of its cycle, and the cycle then waits
ExceptionHandled ==
    \A i \in Ops("raise") :
        /\ i = Len(log)
        /\ pc \in {"except_sleep", "loop", "cleanup", "done"}
        /\ pc # "except_sleep" => slept \in SleepDelays

\* the loop is left only with the stop flag set or on an interrupt
LoopLeftOnlyOnRequest ==
    pc = "cleanup" \/ (pc = "done" /\ exit_code = 0) => ~running \/ Interrupted

\* C15: an unexpected exception raised by a step of a cycle does not end the
\* loop: it is caught, the rest of the cycle is skipped, the standard wait is
\* made, and with the stop flag unset the loop test then begins the next
\* cycle; the loop ends only by the stop flag or an interrupt.
C15_ExceptionNeverEndsLoop ==
    /\ [](ExceptionHandled /\ LoopLeftOnlyOnRequest)
    /\ [][(pc = "loop" /\ pc' # "loop" /\ running) =>
            /\ pc' \in {"health_web", "load_cache"}
            /\ cycles' = cycles + 1
         ]_vars

\* the wait of the handler is over, the flag is unset, the loop test is next
C15_Witness ==
    /\ Raised
    /\ pc = "loop"
    /\ running
    /\ slept \in SleepDelays
    /\ cycles < ExcCycles

(* ------------------------------- C16 ---------------------------------- *)
\* run() has returned from its startup check: docker was not available
StartupFailed == pc = "done" /\ cleanups = 0

\* the fields of the manager hold what the constructor gave them and the
\* cache file is the one the process found
Untouched ==
    /\ nest_hub_ip = NoAddr
    /\ last_cast_time = NoTime
    /\ last_ip_verification = DatetimeMin
    /\ cache_file \in InitCacheFiles
    /\ clock = 0

\* C16: when docker is unavailable at startup, run() returns a non-zero code
\* without entering the loop: no cycle begins, no call is made, nothing is
\* cleaned up and the state is as constructed; every other run returns 0.
C16_StartupFailureExitsNonZero ==
    /\ [](pc = "done" => exit_code \in {0, 1})
    /\ [](StartupFailed =>
            exit_code # 0 /\ cycles = 0 /\ log = <<>> /\ Untouched)
    /\ [](pc = "done" /\ ~StartupFailed => exit_code = 0 /\ cleanups = 2)
    /\ [][pc = "start" /\ pc' # "start" =>
            /\ UNCHANGED <<state, cycles, log, clock>>
            /\ pc' \in {"done", "loop"}
            /\ pc' = "loop" => cleanups' = 1 /\ exit_code' = -1
         ]_vars

\* run() has returned 1, a signal having arrived during the startup check
C16_Witness == StartupFailed /\ exit_code = 1 /\ ~running /\ cycles = 0

(* ------------------------------- C17 ---------------------------------- *)
\* the cycle began with no known address and has loaded the cache
NoAddressCycle == cycles >= 1 /\ startIp = NoAddr /\ log # <<>>

\* the load returned nothing, or the address it returned failed the probe
LoadAbsent == ~log[1].ok
ProbeFailed == \E i \in Ops("verify") : ~log[i].ok

\* the scan has been called in this cycle, or is the next call
ScanInvoked == Count("scan") = 1 \/ pc = "scan"

\* C17: a cycle that begins with no known address loads the cache once, and
\* scans if and only if the load returned nothing or the cached address
\* failed the probe; a cached address that passes is adopted as the known
\* address with lastVerifiedAt set to the time of the cycle, without a scan.
C17_ScanIffCacheUnusable ==
    NoAddressCycle =>
        /\ log[1].op = "load"
        /\ Count("load") = 1
        /\ Count("verify") = IF LoadAbsent \/ pc = "verify_cached" THEN 0 ELSE 1
        /\ Count("scan") <= 1
        /\ Count("reverify") = 0
        /\ pc # "verify_cached" => (ScanInvoked <=> LoadAbsent \/ ProbeFailed)
        /\ \A i \in Ops("verify") :
              /\ log[i].addr = log[1].addr
              /\ log[i].ok =>
                    /\ nest_hub_ip = log[i].addr
                    /\ last_ip_verification = now
                    /\ ~ScanInvoked

\* a cycle after the first adopted the cached address without scanning
C17_Witness ==
    /\ NoAddressCycle
    /\ CallsDone
    /\ now > 0
    /\ \E i \in Ops("verify") : log[i].ok
    /\ nest_hub_ip = log[1].addr
    /\ last_ip_verification = now

(* ------------------------------- C18 ---------------------------------- *)
\* the cast has been called in this cycle, or is the next call
CastAttempted == Count("cast") = 1 \/ pc = "cast"

\* C18: a cycle that reaches the action phase has a known address and calls
\* the endpoint start once, before any cast; it attempts the cast if and only
\* if the start succeeded and the display check of the cycle was false or no
\* cast has succeeded so far.  With a cast already succeeded, a cycle whose
\* endpoint signal alone was false does not cast; a failed start never does.
C18_CastIffStartedAndNeeded ==
    /\ Count("start") <= 1
    /\ Count("cast") <= 1
    /\ Count("start") = 0 => ~CastAttempted
    /\ Count("start") = 1 =>
          /\ nest_hub_ip # NoAddr
          /\ CastAttempted <=> (StartedOk /\ (DisplayFalse \/ startCast = NoTime))

\* the endpoint signal alone was false after an earlier successful cast: the
\* endpoint was started and no cast made
C18_Witness ==
    /\ CallsDone
    /\ HealthChecked
    /\ ~log[1].ok
    /\ log[2].ok
    /\ startCast # NoTime
    /\ StartedOk
    /\ Count("cast") = 0

(* ------------------------------- C19 ---------------------------------- *)
\* the scan that was drawn found nmap unavailable and ran the secondary
\* strategy, which could determine the network range
SecondaryRan ==
    /\ pc = "scan_done"
    /\ scan_input.localIpOk
    /\ scan_input.nmap = "unavailable"
    /\ scan_input.localIpOk2

\* the live host has the target hostname, passes the identity probe
NameMatches(a) == scan_input.names[a] = "match"
ProbePasses(a) == a \in scan_input.pass

\* the live host's reverse lookup raised
LookupFailed(a) == scan_input.names[a] = "error"

\* C19 as claimed: the secondary strategy returns the first live host, in
\* ascending order, that has the target hostname or passes the identity
\* probe, either one sufficing for any live host; absent if there is none.
C19_FirstByNameOrProbe ==
    SecondaryRan =>
        LET accepted == {a \in scan_input.alive : NameMatches(a) \/ ProbePasses(a)}
        IN IF accepted = {} THEN discovered_ip = NoAddr
           ELSE /\ discovered_ip \in accepted
                /\ \A a \in accepted : discovered_ip <= a

\* C19 as amended: the secondary strategy returns the first live host, in
\* ascending order, whose reverse lookup gives the target hostname or whose
\* reverse lookup fails and which passes the identity probe; a live host
\* whose lookup gives another name is rejected without being probed.  It
\* returns absent if there is no such host or the network range is unknown.
\* A primary scan that times out returns absent without a secondary one.
C19_FirstByNameElseProbeOnLookupFailure ==
    /\ (pc = "scan_done" /\ scan_input.localIpOk /\ scan_input.nmap = "unavailable") =>
          LET accepted == {a \in scan_input.alive :
                              NameMatches(a) \/ (LookupFailed(a) /\ ProbePasses(a))}
          IN IF accepted = {} \/ ~scan_input.localIpOk2 THEN discovered_ip = NoAddr
             ELSE /\ discovered_ip \in accepted
                  /\ \A a \in accepted : discovered_ip <= a
    /\ (pc = "scan_done" /\ scan_input.nmap = "timeout") => discovered_ip = NoAddr

\* the lower live host passes the probe under another name and is skipped;
\* the higher one, whose lookup fails and which passes the probe, is returned
C19_Witness ==
    /\ SecondaryRan
    /\ scan_input.alive = {5, 9}
    /\ scan_input.names[5] = "nomatch"
    /\ ProbePasses(5)
    /\ LookupFailed(9)
    /\ ProbePasses(9)
    /\ discovered_ip = 9

(* ------------------------------- C20 ---------------------------------- *)
\* the display check has run on a snapshot that was retrieved
SnapshotRetrieved ==
    /\ pc = "status_done"
    /\ status_input.ip # NoAddr
    /\ status_input.rc = "ok"

\* the display check has run and no snapshot was retrieved
NoSnapshot ==
    /\ pc = "status_done"
    /\ status_input.ip = NoAddr \/ status_input.rc # "ok"

\* C20 as claimed: the display check is true for every retrieved snapshot
\* that holds the application identifier (the DashCast name or its app id)
\* or the ready phrase, and false for every other snapshot and whenever no
\* snapshot was retrieved.
C20_TrueIffIdentifierOrReadyPhrase ==
    /\ SnapshotRetrieved => (cast_status_ok <=> status_input.info # {})
    /\ NoSnapshot => ~cast_status_ok

\* C20 as the code has it: the check is true exactly when the snapshot holds
\* the app id line, or the DashCast name while the local address can be
\* determined; the ready phrase alone never makes it true, and it is false
\* whenever no snapshot was retrieved.
C20_TrueIffAppIdOrNameWithLocalIp ==
    /\ SnapshotRetrieved =>
          (cast_status_ok <=>
              \/ "app_id: 84912283" \in status_input.info
              \/ "display_name: DashCast" \in status_input.info /\ status_input.localIpOk)
    /\ NoSnapshot => ~cast_status_ok
    /\ pc = "status_done" => cast_status_ok \in BOOLEAN

\* a retrieved snapshot with the ready phrase alone was judged false
C20_Witness ==
    /\ SnapshotRetrieved
    /\ status_input.info = {"status_text: Application ready"}
    /\ ~cast_status_ok

(* ------------------------------- C21 ---------------------------------- *)
\* the cycle has taken an address from the cache or from the scan
ResolvedThisCycle ==
    \/ \E i \in Ops("verify") : log[i].ok
    \/ \E i \in Ops("scan") : log[i].ok

\* C21: a cycle that begins with no known address runs neither health check
\* and keeps both signals at their initial true; when it resolves an address
\* and starts the endpoint, it attempts the cast if and only if no cast has
\* succeeded so far, so the cycle that rediscovers the device after an
\* earlier successful cast makes no cast.
C21_RediscoveryCastsOnlyBeforeFirstCast ==
    NoAddressCycle =>
        /\ Count("web_health") = 0
        /\ Count("cast_status") = 0
        /\ web_server_ok
        /\ cast_status_ok
        /\ CastAttempted => ResolvedThisCycle /\ StartedOk /\ startCast = NoTime
        /\ (StartedOk /\ startCast = NoTime) => CastAttempted
        /\ startCast # NoTime => last_cast_time = startCast

\* a cycle that found the device again by a scan after an earlier successful
\* cast, started the endpoint and ended without casting
C21_Witness ==
    /\ NoAddressCycle
    /\ CallsDone
    /\ startCast # NoTime
    /\ \E i \in Ops("scan") : log[i].ok
    /\ StartedOk
    /\ nest_hub_ip # NoAddr
    /\ Count("cast") = 0

(* ------------------------------- C22 ---------------------------------- *)
\* the step is one call of the cycle, of the kinds given
CallStep(ops) == Len(log') = Len(log) + 1 /\ log'[Len(log')].op \in ops

\* the calls and events that resolve and verify nothing
NonResolvingOps == {"web_health", "cast_status", "start", "cast", "raise", "interrupt"}

\* C22: the known address goes from present to absent only in the step of a
\* failed re-verification, and a present address is never replaced by
\* another; health checks, the endpoint start, the cast, caught exceptions
\* and interrupts, whatever their result, leave knownAddress and
\* lastVerifiedAt as they were, as does every step that is no call; the
\* cache save leaves the address, and the time recorded after it is the time
\* of the cycle whether the save succeeded or not.
C22_AddressClearedOnlyByFailedReverify ==
    [][/\ (nest_hub_ip # NoAddr /\ nest_hub_ip' # nest_hub_ip) =>
            /\ nest_hub_ip' = NoAddr
            /\ CallStep({"reverify"})
            /\ ~log'[Len(log')].ok
       /\ (CallStep(NonResolvingOps) \/ Len(log') # Len(log) + 1) =>
            UNCHANGED <<nest_hub_ip, last_ip_verification>>
       /\ CallStep({"save"}) =>
            /\ nest_hub_ip' = nest_hub_ip
            /\ last_ip_verification' = now
      ]_vars

\* the handler of an exception has slept in a cycle that began with a known
\* address and after a failed health check: address and time are as before
C22_Witness ==
    /\ Raised
    /\ pc = "loop"
    /\ HealthChecked
    /\ ~log[2].ok
    /\ startIp # NoAddr
    /\ nest_hub_ip = startIp
    /\ last_ip_verification = startVerified

(* ------------------------------- C23 ---------------------------------- *)
\* an iteration has just ended without sleeping
EndedWithoutSleep == pc = "loop" /\ cycles >= 1 /\ slept = 0

\* C23: no two consecutive iterations both end without sleeping.  An
\* iteration ends without a sleep only by dropping the known address after a
\* failed re-verification; the next step of run() is then the exit of the
\* loop or the start of an iteration without a known address, and such an
\* iteration never re-verifies and comes back to the loop test only after a
\* sleep, whatever the load, the probe, the scan, the endpoint start and the
\* cast give.
C23_NoTwoIterationsWithoutSleep ==
    /\ [](EndedWithoutSleep =>
            /\ nest_hub_ip = NoAddr
            /\ log[Len(log)] = Call("reverify", startIp, FALSE))
    /\ [][(EndedWithoutSleep /\ pc' # "loop") =>
            \/ pc' = "cleanup" /\ ~running
            \/ pc' = "load_cache" /\ startIp' = NoAddr /\ cycles' = cycles + 1
         ]_vars
    /\ []((cycles >= 1 /\ startIp = NoAddr) =>
            /\ pc # "reverify"
            /\ Count("reverify") = 0
            /\ pc = "loop" => slept >= SleepTicks)

\* the third iteration, begun without the address the first one resolved and
\* the second dropped without sleeping, has scanned in vain and slept
C23_Witness ==
    /\ cycles = 3
    /\ pc = "loop"
    /\ startIp = NoAddr
    /\ startVerified # DatetimeMin
    /\ now - startVerified > VerificationInterval
    /\ \E i \in Ops("scan") : ~log[i].ok
    /\ slept >= SleepTicks

TypeOK ==
    /\ pc \in {"start", "loop", "health_web", "health_cast", "load_cache",
               "verify_cached", "scan", "save_cache", "reverify",
               "start_server", "cast", "sleep", "except_sleep", "cleanup",
               "done", "scan_unit", "scan_done", "status_unit", "status_done"}
    /\ running \in BOOLEAN
    /\ nest_hub_ip \in Addrs \cup {NoAddr}
    /\ clock \in Nat
    /\ cycles \in 0..MaxCycles
    /\ now \in 0..clock

====
